---- MODULE Spec2Model ----
(***************************************************************************)
(* Model of the two bank-account programs of the repository:               *)
(*   src/Desafio_02.py  the object-oriented program (Cliente, Conta,       *)
(*                      ContaCorrente, Historico, Saque, Deposito, main)   *)
(*   src/desadio.py     the procedural program (depositar, sacar, main)    *)
(*                                                                         *)
(* Amounts are exact numbers: the rounding of binary floats and the float  *)
(* values inf and nan are outside the model.  A ledger record is modelled  *)
(* by its "tipo" and "valor" keys; the "data" key (wall-clock text) is     *)
(* read by no property below and is left out.  Of desadio.py the two       *)
(* balance-changing menu branches are modelled.                            *)
(*                                                                         *)
(* main of Desafio_02.py calls criar_cliente, criar_conta and              *)
(* listar_contas, which the file does not define; they are modelled from   *)
(* the specification of the commands new-client, new-account and           *)
(* list-accounts.  A client is modelled by its cpf and its accounts.       *)
(***************************************************************************)
EXTENDS Integers, Sequences, FiniteSets, TLC

VARIABLES conta, ret, sucessos,
          saldo, extrato, numero_saques, msg,
          pc, opcao, clientes, contas, saida

oo_vars   == <<conta, ret, sucessos>>
proc_vars == <<saldo, extrato, numero_saques, msg>>
main_vars == <<pc, opcao, clientes, contas, saida>>
vars      == <<conta, ret, sucessos, saldo, extrato, numero_saques, msg,
               pc, opcao, clientes, contas, saida>>

----------------------------------------------------------------------------
(* Bounds of the model *)

\* longest ledger / statement explored for the accounts of Spec and SpecPar
MaxHist == 4
\* longest ledger explored for an account reached through the command loop
MaxMov == 2
\* most accounts created through the command loop
MaxContas == 3

\* amounts handed to sacar / depositar
Valores == {-100, 0, 100, 300, 500, 600}

----------------------------------------------------------------------------
(* Program constants *)

LimitePadrao == 500
LimiteSaquesPadrao == 3
limite == 500
LIMITE_SAQUES == 3

\* the messages the programs print, by the condition they report
ValorInvalido     == "valor_invalido"
SaldoInsuficiente == "saldo_insuficiente"
ExcedeLimite      == "excede_limite"
MaximoSaques      == "maximo_saques"
SaqueOk           == "saque_ok"
DepositoOk        == "deposito_ok"

----------------------------------------------------------------------------
(* src/Desafio_02.py : Conta, ContaCorrente, Historico, Saque, Deposito *)

\* Conta.__init__
Conta_init(numero, cliente) ==
    [classe |-> "Conta", saldo |-> 0, numero |-> numero, agencia |-> "0001",
     cliente |-> cliente, historico |-> <<>>]

\* ContaCorrente.__init__
ContaCorrente_init(numero, cliente, lim, lim_saques) ==
    [classe |-> "ContaCorrente", saldo |-> 0, numero |-> numero,
     agencia |-> "0001", cliente |-> cliente, historico |-> <<>>,
     limite |-> lim, limite_saques |-> lim_saques]

\* Conta.criar_nova_conta, for cls = ContaCorrente with the default limits
criar_nova_conta(cliente, numero) ==
    ContaCorrente_init(numero, cliente, LimitePadrao, LimiteSaquesPadrao)

\* Conta.sacar with the balance test left out
Conta_sacar_semSaldo(c, valor) ==
    IF valor <= 0
    THEN [ok |-> FALSE, msg |-> <<ValorInvalido>>, conta |-> c]
    ELSE [ok |-> TRUE, msg |-> <<SaqueOk>>,
          conta |-> [c EXCEPT !.saldo = @ - valor]]

\* Conta.sacar debiting before it tests the balance
Conta_sacar_debitaAntes(c, valor) ==
    IF valor <= 0
    THEN [ok |-> FALSE, msg |-> <<ValorInvalido>>, conta |-> c]
    ELSE IF valor > c.saldo
    THEN [ok |-> FALSE, msg |-> <<SaldoInsuficiente>>,
          conta |-> [c EXCEPT !.saldo = @ - valor]]
    ELSE [ok |-> TRUE, msg |-> <<SaqueOk>>,
          conta |-> [c EXCEPT !.saldo = @ - valor]]

\* Conta.sacar: the returned flag, the lines printed, the account afterwards
Conta_sacar(c, valor) ==
    IF valor <= 0
    THEN [ok |-> FALSE, msg |-> <<ValorInvalido>>, conta |-> c]
    ELSE IF valor > c.saldo
    THEN [ok |-> FALSE, msg |-> <<SaldoInsuficiente>>, conta |-> c]
    ELSE [ok |-> TRUE, msg |-> <<SaqueOk>>,
          conta |-> [c EXCEPT !.saldo = @ - valor]]

\* Conta.depositar assigning the amount instead of adding it
Conta_depositar_atribui(c, valor) ==
    IF valor <= 0
    THEN [ok |-> FALSE, msg |-> <<ValorInvalido>>, conta |-> c]
    ELSE [ok |-> TRUE, msg |-> <<DepositoOk>>,
          conta |-> [c EXCEPT !.saldo = valor]]

\* Conta.depositar
Conta_depositar(c, valor) ==
    IF valor <= 0
    THEN [ok |-> FALSE, msg |-> <<ValorInvalido>>, conta |-> c]
    ELSE [ok |-> TRUE, msg |-> <<DepositoOk>>,
          conta |-> [c EXCEPT !.saldo = @ + valor]]

\* the count ContaCorrente.sacar takes over the ledger
NumeroSaques(h) == Cardinality({i \in DOMAIN h : h[i].tipo = "Saque"})

\* ContaCorrente.sacar letting one withdrawal too many through
ContaCorrente_sacar_maisUm(c, valor) ==
    IF valor > c.limite
    THEN [ok |-> FALSE, msg |-> <<ExcedeLimite>>, conta |-> c]
    ELSE IF NumeroSaques(c.historico) > c.limite_saques
    THEN [ok |-> FALSE, msg |-> <<MaximoSaques>>, conta |-> c]
    ELSE Conta_sacar(c, valor)

\* ContaCorrente.sacar testing the count before the ceiling
ContaCorrente_sacar_ordem(c, valor) ==
    IF NumeroSaques(c.historico) >= c.limite_saques
    THEN [ok |-> FALSE, msg |-> <<MaximoSaques>>, conta |-> c]
    ELSE IF valor > c.limite
    THEN [ok |-> FALSE, msg |-> <<ExcedeLimite>>, conta |-> c]
    ELSE Conta_sacar(c, valor)

\* ContaCorrente.sacar comparing the amount with limite_saques
ContaCorrente_sacar_campo(c, valor) ==
    IF valor > c.limite_saques
    THEN [ok |-> FALSE, msg |-> <<ExcedeLimite>>, conta |-> c]
    ELSE IF NumeroSaques(c.historico) >= c.limite_saques
    THEN [ok |-> FALSE, msg |-> <<MaximoSaques>>, conta |-> c]
    ELSE Conta_sacar(c, valor)

\* ContaCorrente.sacar
ContaCorrente_sacar(c, valor) ==
    IF valor > c.limite
    THEN [ok |-> FALSE, msg |-> <<ExcedeLimite>>, conta |-> c]
    ELSE IF NumeroSaques(c.historico) >= c.limite_saques
    THEN [ok |-> FALSE, msg |-> <<MaximoSaques>>, conta |-> c]
    ELSE Conta_sacar(c, valor)

\* conta.sacar(valor), dispatched on the class of the account
sacar(c, valor) ==
    IF c.classe = "ContaCorrente" THEN ContaCorrente_sacar(c, valor)
                                  ELSE Conta_sacar(c, valor)

\* conta.depositar(valor): ContaCorrente inherits Conta.depositar
depositar(c, valor) == Conta_depositar(c, valor)

\* the transaction objects
Saque(valor)    == [classe |-> "Saque", valor |-> valor]
Deposito(valor) == [classe |-> "Deposito", valor |-> valor]

\* Historico.adicionar_transacao
adicionar_transacao(h, transacao) ==
    Append(h, [tipo |-> transacao.classe, valor |-> transacao.valor])

\* Saque.registrar recording whatever sacar returned
Saque_registrar_sempre(t, c) ==
    LET r == sacar(c, t.valor) IN
    [r EXCEPT !.conta.historico = adicionar_transacao(@, t)]

\* Saque.registrar
Saque_registrar(t, c) ==
    LET r == sacar(c, t.valor) IN
    IF r.ok
    THEN [r EXCEPT !.conta.historico = adicionar_transacao(@, t)]
    ELSE r

\* Deposito.registrar
Deposito_registrar(t, c) ==
    LET r == depositar(c, t.valor) IN
    IF r.ok
    THEN [r EXCEPT !.conta.historico = adicionar_transacao(@, t)]
    ELSE r

\* Cliente.realizar_transacao
realizar_transacao(c, transacao) ==
    IF transacao.classe = "Saque" THEN Saque_registrar(transacao, c)
                                  ELSE Deposito_registrar(transacao, c)

----------------------------------------------------------------------------
(* src/desadio.py : depositar, sacar *)

\* depositar of desadio.py accepting the amount 0
desadio_depositar_zero(s, e, valor) ==
    IF valor >= 0
    THEN [saldo |-> s + valor, extrato |-> Append(e, <<"Deposito", valor>>),
          msg |-> <<DepositoOk>>]
    ELSE [saldo |-> s, extrato |-> e, msg |-> <<ValorInvalido>>]

\* depositar(saldo, extrato) with the amount read from the prompt
desadio_depositar(s, e, valor) ==
    IF valor > 0
    THEN [saldo |-> s + valor, extrato |-> Append(e, <<"Deposito", valor>>),
          msg |-> <<DepositoOk>>]
    ELSE [saldo |-> s, extrato |-> e, msg |-> <<ValorInvalido>>]

\* sacar(saldo, extrato, numero_saques, limite, LIMITE_SAQUES)
desadio_sacar(s, e, n, lim, lim_saques, valor) ==
    LET excedeu_saldo  == valor > s
        excedeu_limite == valor > lim
        excedeu_saques == n >= lim_saques
    IN  IF excedeu_saldo
        THEN [saldo |-> s, extrato |-> e, numero_saques |-> n,
              msg |-> <<SaldoInsuficiente>>]
        ELSE IF excedeu_limite
        THEN [saldo |-> s, extrato |-> e, numero_saques |-> n,
              msg |-> <<ExcedeLimite>>]
        ELSE IF excedeu_saques
        THEN [saldo |-> s, extrato |-> e, numero_saques |-> n,
              msg |-> <<MaximoSaques>>]
        ELSE IF valor > 0
        THEN [saldo |-> s - valor, extrato |-> Append(e, <<"Saque", valor>>),
              numero_saques |-> n + 1, msg |-> <<SaqueOk>>]
        ELSE [saldo |-> s, extrato |-> e, numero_saques |-> n,
              msg |-> <<ValorInvalido>>]

----------------------------------------------------------------------------
(* Initial states *)

\* the limits an account under test is constructed with
LimitesSaques == {1, LimiteSaquesPadrao}

\* state of desadio.main before its loop
InitProc ==
    /\ saldo = 0
    /\ extrato = <<>>
    /\ numero_saques = 0
    /\ msg = <<>>

\* state of Desafio_02.main before its loop
InitMain ==
    /\ pc = "menu"
    /\ opcao = "nenhuma"
    /\ clientes = <<>>
    /\ contas = <<>>
    /\ saida = <<>>

NenhumRet == [op |-> "nenhuma", valor |-> 0, ok |-> FALSE, msg |-> <<>>]

\* one freshly constructed account: a Conta, or a ContaCorrente
Init ==
    /\ conta \in {Conta_init(1, "cliente")}
                 \cup {ContaCorrente_init(1, "cliente", LimitePadrao, ls) :
                          ls \in LimitesSaques}
    /\ ret = NenhumRet
    /\ sucessos = <<>>
    /\ InitProc
    /\ InitMain

----------------------------------------------------------------------------
(* Transactions applied to the account under test *)

\* Saque(valor).registrar(conta)
RegistrarSaque(valor) ==
    /\ Len(realizar_transacao(conta, Saque(valor)).conta.historico) <= MaxHist
    /\ LET chamada == sacar(conta, valor)
           r       == realizar_transacao(conta, Saque(valor))
       IN  /\ conta' = r.conta
           /\ ret' = [op |-> "Saque", valor |-> valor, ok |-> r.ok, msg |-> r.msg]
           /\ sucessos' = IF chamada.ok
                          THEN Append(sucessos, [tipo |-> "Saque", valor |-> valor])
                          ELSE sucessos

\* Deposito(valor).registrar(conta)
RegistrarDeposito(valor) ==
    /\ Len(realizar_transacao(conta, Deposito(valor)).conta.historico) <= MaxHist
    /\ LET chamada == depositar(conta, valor)
           r       == realizar_transacao(conta, Deposito(valor))
       IN  /\ conta' = r.conta
           /\ ret' = [op |-> "Deposito", valor |-> valor, ok |-> r.ok, msg |-> r.msg]
           /\ sucessos' = IF chamada.ok
                          THEN Append(sucessos, [tipo |-> "Deposito", valor |-> valor])
                          ELSE sucessos

OOSaque    == \E valor \in Valores : RegistrarSaque(valor) /\ UNCHANGED <<proc_vars, main_vars>>
OODeposito == \E valor \in Valores : RegistrarDeposito(valor) /\ UNCHANGED <<proc_vars, main_vars>>

Next == OOSaque \/ OODeposito

Spec == Init /\ [][Next]_vars

----------------------------------------------------------------------------
(* src/desadio.py : the two balance-changing branches of main's loop *)

\* opcao == "1": saldo, extrato = depositar(saldo, extrato)
Opcao1(valor) ==
    LET r == desadio_depositar(saldo, extrato, valor) IN
    /\ Len(r.extrato) <= MaxHist
    /\ saldo' = r.saldo
    /\ extrato' = r.extrato
    /\ msg' = r.msg
    /\ UNCHANGED numero_saques

\* opcao == "2": saldo, extrato, numero_saques = sacar(...)
Opcao2(valor) ==
    LET r == desadio_sacar(saldo, extrato, numero_saques, limite, LIMITE_SAQUES, valor) IN
    /\ Len(r.extrato) <= MaxHist
    /\ saldo' = r.saldo
    /\ extrato' = r.extrato
    /\ numero_saques' = r.numero_saques
    /\ msg' = r.msg

(* The same request handed to the account under test and to desadio.py *)
ParDeposito == \E valor \in Valores :
    RegistrarDeposito(valor) /\ Opcao1(valor) /\ UNCHANGED main_vars
ParSaque == \E valor \in Valores :
    RegistrarSaque(valor) /\ Opcao2(valor) /\ UNCHANGED main_vars

NextPar == ParDeposito \/ ParSaque

SpecPar == Init /\ [][NextPar]_vars

----------------------------------------------------------------------------
(* src/Desafio_02.py : the command loop *)

\* identifiers typed at the "CPF" prompt
CPFs == {"111", "222"}
\* texts typed at the amount prompts
Textos == {"100", "600", "-100", "0", "abc"}

\* float(text): the texts that parse, and their values; any other text
\* raises ValueError
TabelaFloat == ("100" :> 100) @@ ("600" :> 600) @@ ("-100" :> -100) @@ ("0" :> 0)
float_aceita(texto) == texto \in DOMAIN TabelaFloat
float(texto) == TabelaFloat[texto]

\* buscar_cliente_por_cpf: position of the first match, 0 for None
buscar_cliente_por_cpf(cpf, cs) ==
    LET achados == {i \in DOMAIN cs : cs[i].cpf = cpf} IN
    IF achados = {} THEN 0
    ELSE CHOOSE i \in achados : \A j \in achados : i <= j

\* recuperar_primeira_conta: the account (its position in contas), 0 for None
recuperar_primeira_conta(cliente) ==
    IF cliente.contas = <<>> THEN 0 ELSE cliente.contas[1]

\* processar_deposito(clientes)
processar_deposito(cpf, texto) ==
    LET cliente == buscar_cliente_por_cpf(cpf, clientes) IN
    IF cliente = 0
    THEN /\ saida' = <<"cliente_nao_encontrado">>
         /\ pc' = "menu"
         /\ UNCHANGED <<clientes, contas>>
    ELSE IF ~float_aceita(texto)
    THEN /\ saida' = <<"ValueError">>
         /\ pc' = "excecao"
         /\ UNCHANGED <<clientes, contas>>
    ELSE LET valor == float(texto)
             c     == recuperar_primeira_conta(clientes[cliente])
         IN  IF c = 0
             THEN /\ saida' = <<"cliente_sem_conta">>
                  /\ pc' = "menu"
                  /\ UNCHANGED <<clientes, contas>>
             ELSE LET r == realizar_transacao(contas[c], Deposito(valor)) IN
                  /\ Len(r.conta.historico) <= MaxMov
                  /\ contas' = [contas EXCEPT ![c] = r.conta]
                  /\ saida' = r.msg
                  /\ pc' = "menu"
                  /\ UNCHANGED clientes

\* processar_saque(clientes)
processar_saque(cpf, texto) ==
    LET cliente == buscar_cliente_por_cpf(cpf, clientes) IN
    IF cliente = 0
    THEN /\ saida' = <<"cliente_nao_encontrado">>
         /\ pc' = "menu"
         /\ UNCHANGED <<clientes, contas>>
    ELSE IF ~float_aceita(texto)
    THEN /\ saida' = <<"ValueError">>
         /\ pc' = "excecao"
         /\ UNCHANGED <<clientes, contas>>
    ELSE LET valor == float(texto)
             c     == recuperar_primeira_conta(clientes[cliente])
         IN  IF c = 0
             THEN /\ saida' = <<"cliente_sem_conta">>
                  /\ pc' = "menu"
                  /\ UNCHANGED <<clientes, contas>>
             ELSE LET r == realizar_transacao(contas[c], Saque(valor)) IN
                  /\ Len(r.conta.historico) <= MaxMov
                  /\ contas' = [contas EXCEPT ![c] = r.conta]
                  /\ saida' = r.msg
                  /\ pc' = "menu"
                  /\ UNCHANGED clientes

\* opcao == "d"
OpcaoD == \E cpf \in CPFs, texto \in Textos :
    /\ pc = "menu"
    /\ opcao' = "d"
    /\ processar_deposito(cpf, texto)
    /\ UNCHANGED <<oo_vars, proc_vars>>

\* opcao == "s"
OpcaoS == \E cpf \in CPFs, texto \in Textos :
    /\ pc = "menu"
    /\ opcao' = "s"
    /\ processar_saque(cpf, texto)
    /\ UNCHANGED <<oo_vars, proc_vars>>

\* opcao == "e": exibir_extrato
OpcaoE == \E cpf \in CPFs :
    /\ pc = "menu"
    /\ opcao' = "e"
    /\ LET cliente == buscar_cliente_por_cpf(cpf, clientes) IN
       IF cliente = 0
       THEN saida' = <<"cliente_nao_encontrado">>
       ELSE IF recuperar_primeira_conta(clientes[cliente]) = 0
       THEN saida' = <<"cliente_sem_conta">>
       ELSE LET c == contas[recuperar_primeira_conta(clientes[cliente])] IN
            saida' = <<"extrato", c.historico, c.saldo>>
    /\ pc' = "menu"
    /\ UNCHANGED <<clientes, contas, oo_vars, proc_vars>>

\* criar_cliente(clientes): a client with a new cpf is added; a cpf already
\* registered is refused
criar_cliente(cpf) ==
    IF buscar_cliente_por_cpf(cpf, clientes) # 0
    THEN /\ saida' = <<"cliente_ja_existe">>
         /\ UNCHANGED clientes
    ELSE /\ clientes' = Append(clientes, [cpf |-> cpf, contas |-> <<>>])
         /\ saida' = <<"cliente_criado">>

\* opcao == "nu"
OpcaoNU == \E cpf \in CPFs :
    /\ pc = "menu"
    /\ opcao' = "nu"
    /\ criar_cliente(cpf)
    /\ pc' = "menu"
    /\ UNCHANGED <<contas, oo_vars, proc_vars>>

\* numbering that starts at 0
numero_conta_zero(cs) == Len(cs)

\* numero_conta = len(contas) + 1
numero_conta(cs) == Len(cs) + 1

\* criar_conta(numero_conta, clientes, contas): an account with the given
\* number is created for an existing client and added to both lists
criar_conta(numero, cpf) ==
    LET cliente == buscar_cliente_por_cpf(cpf, clientes) IN
    IF cliente = 0
    THEN /\ saida' = <<"cliente_nao_encontrado">>
         /\ UNCHANGED <<clientes, contas>>
    ELSE /\ Len(contas) < MaxContas
         /\ contas' = Append(contas, criar_nova_conta(cpf, numero))
         /\ clientes' = [clientes EXCEPT ![cliente].contas = Append(@, Len(contas) + 1)]
         /\ saida' = <<"conta_criada">>

\* opcao == "nc"
OpcaoNC == \E cpf \in CPFs :
    /\ pc = "menu"
    /\ opcao' = "nc"
    /\ criar_conta(numero_conta(contas), cpf)
    /\ pc' = "menu"
    /\ UNCHANGED <<oo_vars, proc_vars>>

\* listar_contas(contas): what is printed of the accounts created
listar_contas(cs) == [i \in DOMAIN cs |-> cs[i].numero]

\* opcao == "lc"
OpcaoLC ==
    /\ pc = "menu"
    /\ opcao' = "lc"
    /\ saida' = <<"contas", listar_contas(contas)>>
    /\ pc' = "menu"
    /\ UNCHANGED <<clientes, contas, oo_vars, proc_vars>>

\* opcao == "q": break
OpcaoQ ==
    /\ pc = "menu"
    /\ opcao' = "q"
    /\ pc' = "encerrado"
    /\ UNCHANGED <<saida, clientes, contas, oo_vars, proc_vars>>

\* any other choice
OpcaoInvalida ==
    /\ pc = "menu"
    /\ opcao' = "outra"
    /\ saida' = <<"opcao_invalida">>
    /\ pc' = "menu"
    /\ UNCHANGED <<clientes, contas, oo_vars, proc_vars>>

NextMain == OpcaoD \/ OpcaoS \/ OpcaoE \/ OpcaoNU \/ OpcaoNC \/ OpcaoLC
            \/ OpcaoQ \/ OpcaoInvalida

InitCLI ==
    /\ conta = Conta_init(1, "cliente")
    /\ ret = NenhumRet
    /\ sucessos = <<>>
    /\ InitProc
    /\ InitMain

SpecMain == InitCLI /\ [][NextMain]_vars

----------------------------------------------------------------------------
(* Properties *)

\* the account under test is a ContaCorrente
EhCorrente == conta.classe = "ContaCorrente"

\* the account under test is a ContaCorrente with the limits of desadio.py
EhCorrentePadrao ==
    /\ EhCorrente
    /\ conta.limite = limite
    /\ conta.limite_saques = LIMITE_SAQUES

RECURSIVE SomaTipo(_, _)
\* sum of the amounts of the records of one kind in a ledger
SomaTipo(h, tipo) ==
    IF h = <<>> THEN 0
    ELSE (IF Head(h).tipo = tipo THEN Head(h).valor ELSE 0) + SomaTipo(Tail(h), tipo)

\* C1: the balance of the account under test (Conta or ContaCorrente) and the
\* saldo of desadio.py are never negative, whatever amounts were requested.
C1_SaldoNaoNegativo == conta.saldo >= 0 /\ saldo >= 0

\* a withdrawal above the balance and a negative amount have both been refused
C1_Witness ==
    /\ Len(conta.historico) >= 2
    /\ NumeroSaques(conta.historico) >= 1
    /\ numero_saques >= 1
    /\ ret.op = "Saque" /\ ret.valor > conta.saldo /\ ~ret.ok
    /\ conta.classe = "Conta"

\* C2: the ledger holds exactly the operations whose sacar/depositar call
\* returned success, with their kind and amount, in the order applied; a
\* transaction adds a record iff its call succeeded.
C2_RegistroSseSucesso ==
    /\ [](conta.historico = sucessos)
    /\ [][(Len(conta'.historico) = Len(conta.historico) + 1) <=> ret'.ok]_vars
    /\ [][Len(conta'.historico) \in {Len(conta.historico), Len(conta.historico) + 1}]_vars

\* both kinds recorded, and the last request refused without a record
C2_Witness ==
    /\ Len(sucessos) >= 3
    /\ NumeroSaques(conta.historico) >= 1
    /\ NumeroSaques(conta.historico) < Len(conta.historico)
    /\ ~ret.ok /\ ret.op # "nenhuma"

\* C3: a ContaCorrente never holds more 'Saque' records than limite_saques,
\* and once it holds that many every further withdrawal is refused.
C3_LimiteDeSaques ==
    /\ [](EhCorrente => NumeroSaques(conta.historico) <= conta.limite_saques)
    /\ [][(EhCorrente /\ ret'.op = "Saque"
             /\ NumeroSaques(conta.historico) >= conta.limite_saques)
          => (~ret'.ok /\ conta' = conta)]_vars

\* three withdrawals done, and a fourth one that the balance and the ceiling
\* would allow has been refused
C3_Witness ==
    /\ EhCorrente
    /\ conta.limite_saques = LimiteSaquesPadrao
    /\ NumeroSaques(conta.historico) = conta.limite_saques
    /\ ret.op = "Saque" /\ ~ret.ok
    /\ ret.valor > 0 /\ ret.valor <= conta.saldo /\ ret.valor <= conta.limite

\* the error the stated precedence selects, <<>> when none applies
Precedencia(c, valor) ==
    IF valor > c.limite THEN <<ExcedeLimite>>
    ELSE IF NumeroSaques(c.historico) >= c.limite_saques THEN <<MaximoSaques>>
    ELSE IF valor <= 0 THEN <<ValorInvalido>>
    ELSE IF valor > c.saldo THEN <<SaldoInsuficiente>>
    ELSE <<>>

\* C4: a refused withdrawal on a ContaCorrente prints exactly one error, the
\* first that applies of: above the ceiling, count exhausted, amount not
\* positive, above the balance.
C4_PrecedenciaDeErros ==
    [][(EhCorrente /\ ret'.op = "Saque" /\ ~ret'.ok)
       => (Len(ret'.msg) = 1 /\ ret'.msg = Precedencia(conta, ret'.valor))]_vars

\* above the ceiling, above the balance and count exhausted at once: the
\* ceiling error is the one printed
C4_Witness ==
    /\ EhCorrente
    /\ ret.op = "Saque" /\ ~ret.ok
    /\ ret.valor > conta.limite
    /\ ret.valor > conta.saldo
    /\ NumeroSaques(conta.historico) >= conta.limite_saques
    /\ ret.msg = <<ExcedeLimite>>

\* C5 as stated: on a ContaCorrente a withdrawal above the balance and below
\* the ceiling always prints the insufficient-balance error.
C5_Original ==
    [][(EhCorrente /\ ret'.op = "Saque"
          /\ ret'.valor > conta.saldo /\ ret'.valor < conta.limite)
       => ret'.msg = <<SaldoInsuficiente>>]_vars

\* C5 amended: such a withdrawal is refused and never prints the ceiling
\* error; it prints the insufficient-balance error while fewer than
\* limite_saques withdrawals are recorded, and the count error otherwise.
C5_SaldoInsuficiente ==
    [][(EhCorrente /\ ret'.op = "Saque"
          /\ ret'.valor > conta.saldo /\ ret'.valor < conta.limite)
       => /\ ~ret'.ok
          /\ ret'.msg # <<ExcedeLimite>>
          /\ ret'.msg = IF NumeroSaques(conta.historico) < conta.limite_saques
                        THEN <<SaldoInsuficiente>>
                        ELSE <<MaximoSaques>>]_vars

\* a withdrawal above a positive balance and below the ceiling was refused
\* for the balance
C5_Witness ==
    /\ EhCorrente
    /\ ret.op = "Saque" /\ ~ret.ok
    /\ conta.saldo > 0
    /\ ret.valor > conta.saldo /\ ret.valor < conta.limite
    /\ ret.msg = <<SaldoInsuficiente>>

\* C6: a refused request leaves balance and ledger as they were; a deposit of
\* 0 or of a negative amount is always refused.
C6_FalhaNaoAltera ==
    /\ [][~ret'.ok => conta' = conta]_vars
    /\ [][(ret'.op = "Deposito" /\ ret'.valor <= 0) => ~ret'.ok]_vars

\* a deposit of a non-positive amount was refused on an account with money
\* and records
C6_Witness ==
    /\ ret.op = "Deposito" /\ ret.valor <= 0 /\ ~ret.ok
    /\ conta.saldo > 0
    /\ Len(conta.historico) >= 2

\* C9: the balance is the sum of the deposit records minus the sum of the
\* withdrawal records of the ledger.
C9_Conservacao ==
    conta.saldo = SomaTipo(conta.historico, "Deposito")
                  - SomaTipo(conta.historico, "Saque")

\* deposits and withdrawals recorded, money left
C9_Witness ==
    /\ NumeroSaques(conta.historico) >= 2
    /\ Len(conta.historico) - NumeroSaques(conta.historico) >= 2
    /\ conta.saldo > 0

\* the last request was accepted by desadio.py
AceitoProc == msg \in {<<SaqueOk>>, <<DepositoOk>>}

\* C10: desadio.py and a default ContaCorrente, given the same requests,
\* accept the same ones and agree on balance and number of withdrawals; what
\* they print differs only for a refused withdrawal.
C10_Equivalencia ==
    EhCorrentePadrao =>
        /\ conta.saldo = saldo
        /\ NumeroSaques(conta.historico) = numero_saques
        /\ Len(conta.historico) = Len(extrato)
        /\ ret.ok <=> AceitoProc
        /\ (ret.msg # msg) => (ret.op = "Saque" /\ ~ret.ok)

\* after some withdrawals, one request refused by both with different errors
C10_Witness ==
    /\ EhCorrentePadrao
    /\ numero_saques >= 2
    /\ ret.op = "Saque" /\ ~ret.ok /\ ~AceitoProc
    /\ ret.msg = <<ExcedeLimite>> /\ msg = <<SaldoInsuficiente>>

\* C7: the command loop ends only by the quit command; every other command
\* returns to the menu.
C7_SoTerminaComQ ==
    /\ pc \in {"menu", "encerrado"}
    /\ pc = "encerrado" => opcao = "q"

\* C8: the k-th account created has number k, and keeps it.
C8_NumeracaoSequencial ==
    /\ [](\A k \in DOMAIN contas : contas[k].numero = k)
    /\ [][/\ Len(contas') >= Len(contas)
          /\ \A k \in DOMAIN contas : contas'[k].numero = contas[k].numero]_vars

\* three accounts created, for two clients
C8_Witness ==
    /\ Len(contas) = 3
    /\ Len(clientes) = 2
    /\ \A i \in DOMAIN clientes : clientes[i].contas # <<>>

====
